---- MODULE Spec2Model ----
(***************************************************************************)
(* A model of dropshot's HttpRouter (src/dropshot/src/router.rs): the trie *)
(* of path segments, insert(), lookup_route() and has_versioned_routes().  *)
(*                                                                         *)
(* Strings are sequences of one-character strings, so that splitting,      *)
(* brace parsing, upper-casing and BTreeMap key order are computed the way *)
(* the code computes them.  Option<T> is <<>> (None) or <<v>> (Some(v)).   *)
(* A BTreeMap is a function whose DOMAIN is its key set.                   *)
(***************************************************************************)
EXTENDS Integers, Sequences, FiniteSets, TLC

\* ------------------------------------------------------------------ bounds

\* the most endpoints a behaviour inserts into the router
MaxInserts == 2

\* request versions are Some(0) .. Some(MaxVersion), and None
MaxVersion == 2

\* the most endpoints registered for one route
MaxBucket == 3

\* ------------------------------------------------------- Option and BTreeMap

None == <<>>

Some(v) == <<v>>

EmptyMap == <<>>

\* BTreeMap::insert / entry(k).or_insert: the map with k bound to v
MapPut(map, k, v) ==
    [x \in (DOMAIN map) \cup {k} |-> IF x = k THEN v ELSE map[x]]

\* ----------------------------------------------------------------- strings

LowerChars == <<"a", "b", "c", "d", "e", "f", "g", "h", "i", "j", "k", "l", "m",
                "n", "o", "p", "q", "r", "s", "t", "u", "v", "w", "x", "y", "z">>

UpperChars == <<"A", "B", "C", "D", "E", "F", "G", "H", "I", "J", "K", "L", "M",
                "N", "O", "P", "Q", "R", "S", "T", "U", "V", "W", "X", "Y", "Z">>

\* char::to_uppercase on the ASCII letters
UpperChar(c) ==
    IF \E i \in 1..Len(LowerChars) : LowerChars[i] = c
    THEN UpperChars[CHOOSE i \in 1..Len(LowerChars) : LowerChars[i] = c]
    ELSE c

\* str::to_uppercase
to_uppercase(s) == [i \in 1..Len(s) |-> UpperChar(s[i])]

Digits == <<"0", "1", "2", "3", "4", "5", "6", "7", "8", "9">>

\* the byte value of a character: the order of String keys in a BTreeMap
CharCode(c) ==
    IF \E i \in 1..Len(UpperChars) : UpperChars[i] = c
    THEN 64 + (CHOOSE i \in 1..Len(UpperChars) : UpperChars[i] = c)
    ELSE IF \E i \in 1..Len(Digits) : Digits[i] = c
    THEN 47 + (CHOOSE i \in 1..Len(Digits) : Digits[i] = c)
    ELSE IF \E i \in 1..Len(LowerChars) : LowerChars[i] = c
    THEN 96 + (CHOOSE i \in 1..Len(LowerChars) : LowerChars[i] = c)
    ELSE CASE c = "%" -> 37
           [] c = "*" -> 42
           [] c = "." -> 46
           [] c = "/" -> 47
           [] c = ":" -> 58
           [] c = "{" -> 123
           [] c = "}" -> 125
           [] OTHER -> 0

\* Ord for String: lexicographic by byte
RECURSIVE StrLess(_, _)
StrLess(a, b) ==
    IF b = <<>> THEN FALSE
    ELSE IF a = <<>> THEN TRUE
    ELSE IF CharCode(Head(a)) # CharCode(Head(b))
         THEN CharCode(Head(a)) < CharCode(Head(b))
         ELSE StrLess(Tail(a), Tail(b))

\* BTreeMap::keys(): the keys in ascending order
RECURSIVE SortedKeys(_)
SortedKeys(keys) ==
    IF keys = {} THEN <<>>
    ELSE LET first == CHOOSE k \in keys : \A o \in keys \ {k} : StrLess(k, o)
         IN <<first>> \o SortedKeys(keys \ {first})

\* str::split(sep): the pieces between separators, empty pieces included
RECURSIVE Split(_, _)
Split(s, sep) ==
    IF s = <<>> THEN << <<>> >>
    ELSE LET rest == Split(Tail(s), sep)
         IN IF Head(s) = sep
            THEN << <<>> >> \o rest
            ELSE << <<Head(s)>> \o Head(rest) >> \o Tail(rest)

\* the index of the first occurrence of c in s, 0 when there is none
FindChar(s, c) ==
    IF \E i \in 1..Len(s) : s[i] = c
    THEN CHOOSE i \in 1..Len(s) : s[i] = c /\ \A j \in 1..(i - 1) : s[j] # c
    ELSE 0

\* ------------------------------------------------------ registration paths

NoPanic == "none"

\* route_path_to_segments that drops every empty segment, as
\* input_path_to_segments() does for request paths
route_path_to_segments_lenient(path) ==
    [panic |-> NoPanic,
     segments |-> SelectSeq(Split(path, "/"), LAMBDA segment : segment # <<>>)]

\* route_path_to_segments(): the raw segments of a registration path
route_path_to_segments(path) ==
    IF path = <<>> \/ Head(path) # "/"
    THEN [panic |-> "route paths must begin with a '/'", segments |-> <<>>]
    ELSE LET ret == Tail(Split(path, "/"))
         IN IF \E i \in 1..(Len(ret) - 1) : ret[i] = <<>>
            THEN [panic |-> "path segments may not be empty", segments |-> <<>>]
            ELSE IF ret[Len(ret)] = <<>>
                 THEN [panic |-> NoPanic, segments |-> SubSeq(ret, 1, Len(ret) - 1)]
                 ELSE [panic |-> NoPanic, segments |-> ret]

\* PathSegment::from(): a raw segment as Literal, VarnameSegment or
\* VarnameWildcard, or the assertion that fails
PathSegment_from(segment) ==
    LET starts == segment # <<>> /\ Head(segment) = "{"
        ends == segment # <<>> /\ segment[Len(segment)] = "}"
    IN IF starts \/ ends
       THEN IF ~starts
            THEN [panic |-> "variable missing leading {", kind |-> "none", name |-> <<>>]
            ELSE IF ~ends
            THEN [panic |-> "variable missing trailing }", kind |-> "none", name |-> <<>>]
            ELSE LET inner == SubSeq(segment, 2, Len(segment) - 1)
                     index == FindChar(inner, ":")
                     var == IF index > 0 THEN SubSeq(inner, 1, index - 1) ELSE inner
                     pat == IF index > 0
                            THEN Some(SubSeq(inner, index + 1, Len(inner)))
                            ELSE None
                 IN IF var = <<>>
                    THEN [panic |-> "variable name must not be empty",
                          kind |-> "none", name |-> <<>>]
                    ELSE IF pat # None
                    THEN IF pat[1] = <<".", "*">>
                         THEN [panic |-> NoPanic, kind |-> "VarnameWildcard", name |-> var]
                         ELSE [panic |-> "Only the pattern '.*' is currently supported",
                               kind |-> "none", name |-> <<>>]
                    ELSE [panic |-> NoPanic, kind |-> "VarnameSegment", name |-> var]
       ELSE [panic |-> NoPanic, kind |-> "Literal", name |-> segment]

\* -------------------------------------------------------- version predicates

\* ApiEndpointVersions: All, From(earliest), Until(until),
\* FromUntil(earliest, until); a semver::Version is a natural number
All == [kind |-> "All", earliest |-> 0, until |-> 0]

From(earliest) == [kind |-> "From", earliest |-> earliest, until |-> 0]

Until(until) == [kind |-> "Until", earliest |-> 0, until |-> until]

FromUntil(earliest, until) ==
    [kind |-> "FromUntil", earliest |-> earliest, until |-> until]

\* ApiEndpointVersions::matches(version): All matches every version and None;
\* the others match Some(v) with v in their half-open range
matches(versions, version) ==
    IF versions.kind = "All" THEN TRUE
    ELSE IF version = None THEN FALSE
    ELSE CASE versions.kind = "From" -> version[1] >= versions.earliest
           [] versions.kind = "Until" -> version[1] < versions.until
           [] versions.kind = "FromUntil" ->
                version[1] >= versions.earliest /\ version[1] < versions.until

\* ApiEndpointVersions::overlaps_with(other): some version is matched by both;
\* All overlaps with everything
overlaps_with(a, b) ==
    IF a.kind = "All" \/ b.kind = "All" THEN TRUE
    ELSE LET lower(v) == IF v.kind = "Until" THEN 0 ELSE v.earliest
             bounded(v) == v.kind # "From"
             low == IF lower(a) > lower(b) THEN lower(a) ELSE lower(b)
         IN /\ bounded(a) => low < a.until
            /\ bounded(b) => low < b.until

\* --------------------------------------------------------------- the trie

\* HttpRouterNode::new()
NewNode ==
    [methods |-> EmptyMap, literal_edges |-> None,
     variable_edge |-> None, rest_edge |-> None]

\* HttpRouter::new()
NewRouter == [root |-> NewNode, has_versioned_routes |-> FALSE]

\* insert_at that rejects an identical predicate only, not an overlapping one
insert_at_equal_only(node, endpoint) ==
    LET methodname == to_uppercase(endpoint.method)
        existing_handlers ==
            IF methodname \in DOMAIN node.methods THEN node.methods[methodname] ELSE <<>>
    IN IF \E i \in 1..Len(existing_handlers) :
            existing_handlers[i].versions = endpoint.versions
       THEN [node |-> node, panic |-> "attempted to create duplicate route"]
       ELSE [node |-> [node EXCEPT !.methods =
                           MapPut(@, methodname, Append(existing_handlers, endpoint))],
             panic |-> NoPanic]

\* insert_at that puts the new endpoint in place of the bucket (a map insert
\* where a push is meant)
insert_at_replacing(node, endpoint) ==
    LET methodname == to_uppercase(endpoint.method)
        existing_handlers ==
            IF methodname \in DOMAIN node.methods THEN node.methods[methodname] ELSE <<>>
        hits == {i \in 1..Len(existing_handlers) :
                    overlaps_with(existing_handlers[i].versions, endpoint.versions)}
    IN IF hits # {}
       THEN LET first == CHOOSE i \in hits : \A j \in hits : i <= j
            IN [node |-> node,
                panic |-> IF existing_handlers[first].versions = endpoint.versions
                          THEN "attempted to create duplicate route"
                          ELSE "overlapping version ranges"]
       ELSE [node |-> [node EXCEPT !.methods = MapPut(@, methodname, <<endpoint>>)],
             panic |-> NoPanic]

\* insert_at without the comparison of the predicates: every overlap is
\* reported as overlapping version ranges
insert_at_always_overlapping(node, endpoint) ==
    LET methodname == to_uppercase(endpoint.method)
        existing_handlers ==
            IF methodname \in DOMAIN node.methods THEN node.methods[methodname] ELSE <<>>
    IN IF \E i \in 1..Len(existing_handlers) :
            overlaps_with(existing_handlers[i].versions, endpoint.versions)
       THEN [node |-> node, panic |-> "overlapping version ranges"]
       ELSE [node |-> [node EXCEPT !.methods =
                           MapPut(@, methodname, Append(existing_handlers, endpoint))],
             panic |-> NoPanic]

\* the tail of HttpRouter::insert(), at the node the path resolved to: the
\* method bucket, the scan for an overlapping predicate, the push
insert_at(node, endpoint) ==
    LET methodname == to_uppercase(endpoint.method)
        existing_handlers ==
            IF methodname \in DOMAIN node.methods THEN node.methods[methodname] ELSE <<>>
        with_bucket == [node EXCEPT !.methods = MapPut(@, methodname, existing_handlers)]
        hits == {i \in 1..Len(existing_handlers) :
                    overlaps_with(existing_handlers[i].versions, endpoint.versions)}
    IN IF hits # {}
       THEN LET first == CHOOSE i \in hits : \A j \in hits : i <= j
            IN [node |-> with_bucket,
                panic |-> IF existing_handlers[first].versions = endpoint.versions
                          THEN "attempted to create duplicate route"
                          ELSE "overlapping version ranges"]
       ELSE [node |-> [node EXCEPT !.methods =
                           MapPut(@, methodname, Append(existing_handlers, endpoint))],
             panic |-> NoPanic]

\* insert_var without the duplicate check
insert_var_unchecked(varnames, new_varname) == NoPanic

\* insert_var(): the panic when the path already used the name
insert_var(varnames, new_varname) ==
    IF new_varname \in varnames
    THEN "variable name is used more than once"
    ELSE NoPanic

\* segments_after_wildcard with the check left out
segments_after_wildcard_unchecked(more) == FALSE

\* the check that no raw segment follows a wildcard segment
segments_after_wildcard(more) == more # <<>>

\* different_name with the comparison left out
different_name_unchecked(new_varname, varname) == FALSE

\* the check that the edge already at this position has another variable name
different_name(new_varname, varname) == new_varname # varname

\* the loop of HttpRouter::insert() from `node` on: one iteration per raw
\* segment, then the tail.  The result is the node as the call leaves it (a
\* panic leaves the edges created before it) and the panic, if any.
RECURSIVE insert_from(_, _, _, _)
insert_from(node, all_segments, varnames, endpoint) ==
    IF all_segments = <<>> THEN insert_at(node, endpoint)
    ELSE
    LET segment == PathSegment_from(Head(all_segments))
        more == Tail(all_segments)
    IN IF segment.panic # NoPanic THEN [node |-> node, panic |-> segment.panic]
       ELSE CASE segment.kind = "Literal" ->
                LET edges == IF node.literal_edges = None
                             THEN EmptyMap ELSE node.literal_edges[1]
                    child == IF segment.name \in DOMAIN edges
                             THEN edges[segment.name] ELSE NewNode
                    below == insert_from(child, more, varnames, endpoint)
                IN [node |-> [node EXCEPT !.literal_edges =
                                  Some(MapPut(edges, segment.name, below.node))],
                    panic |-> below.panic]
              [] segment.kind = "VarnameSegment" ->
                IF insert_var(varnames, segment.name) # NoPanic
                THEN [node |-> node, panic |-> insert_var(varnames, segment.name)]
                ELSE LET edge == IF node.variable_edge = None
                                 THEN <<segment.name, NewNode>>
                                 ELSE node.variable_edge[1]
                         installed == [node EXCEPT !.variable_edge = Some(edge)]
                     IN IF different_name(segment.name, edge[1])
                        THEN [node |-> installed,
                              panic |-> "a different name has already been used"]
                        ELSE LET below == insert_from(edge[2], more,
                                              varnames \cup {segment.name}, endpoint)
                             IN [node |-> [node EXCEPT !.variable_edge =
                                               Some(<<edge[1], below.node>>)],
                                 panic |-> below.panic]
              [] segment.kind = "VarnameWildcard" ->
                IF segments_after_wildcard(more)
                THEN [node |-> node,
                      panic |-> "attempted to match segments after the wildcard variable"]
                ELSE IF insert_var(varnames, segment.name) # NoPanic
                THEN [node |-> node, panic |-> insert_var(varnames, segment.name)]
                ELSE LET edge == IF node.rest_edge = None
                                 THEN <<segment.name, NewNode>>
                                 ELSE node.rest_edge[1]
                         installed == [node EXCEPT !.rest_edge = Some(edge)]
                     IN IF different_name(segment.name, edge[1])
                        THEN [node |-> installed,
                              panic |-> "a different name has already been used"]
                        ELSE LET below == insert_from(edge[2], more,
                                              varnames \cup {segment.name}, endpoint)
                             IN [node |-> [node EXCEPT !.rest_edge =
                                               Some(<<edge[1], below.node>>)],
                                 panic |-> below.panic]

\* is_versioned that knows only the From(..) predicates
is_versioned_from_only(versions) == versions.kind = "From"

\* whether inserting an endpoint with these versions sets has_versioned_routes
is_versioned(versions) == versions # All

\* HttpRouter::insert(endpoint): the router after the call and the panic, if any
insert(router, endpoint) ==
    LET parsed == route_path_to_segments(endpoint.path)
    IN IF parsed.panic # NoPanic
       THEN [router |-> router, panic |-> parsed.panic]
       ELSE LET done == insert_from(router.root, parsed.segments, {}, endpoint)
            IN [router |->
                    [root |-> done.node,
                     has_versioned_routes |->
                        IF done.panic = NoPanic /\ is_versioned(endpoint.versions)
                        THEN TRUE ELSE router.has_versioned_routes],
                panic |-> done.panic]

\* HttpRouter::has_versioned_routes()
has_versioned_routes(router) == router.has_versioned_routes

\* ------------------------------------------------------------ request paths

\* the value of a hexadecimal digit, -1 for any other character
HexVal(c) ==
    IF \E i \in 1..Len(Digits) : Digits[i] = c
    THEN (CHOOSE i \in 1..Len(Digits) : Digits[i] = c) - 1
    ELSE IF \E i \in 1..6 : LowerChars[i] = c \/ UpperChars[i] = c
    THEN 9 + (CHOOSE i \in 1..6 : LowerChars[i] = c \/ UpperChars[i] = c)
    ELSE -1

\* the character of a decoded byte; a lone byte above 127 is not UTF-8, and
\* the other bytes that are no character of the model are one character
ByteChar(byte) ==
    LET known == {"%", "*", ".", "/", ":", "{", "}"}
                    \cup {Digits[i] : i \in 1..Len(Digits)}
                    \cup {LowerChars[i] : i \in 1..Len(LowerChars)}
                    \cup {UpperChars[i] : i \in 1..Len(UpperChars)}
    IN IF \E c \in known : CharCode(c) = byte
       THEN CHOOSE c \in known : CharCode(c) = byte
       ELSE IF byte > 127 THEN "<not utf-8>" ELSE "<other>"

\* percent_decode_str(): every %XY with two hex digits becomes the byte it
\* names; anything else is kept
RECURSIVE percent_decode_str(_)
percent_decode_str(s) ==
    IF s = <<>> THEN <<>>
    ELSE IF Head(s) = "%" /\ Len(s) >= 3 /\ HexVal(s[2]) >= 0 /\ HexVal(s[3]) >= 0
    THEN <<ByteChar(16 * HexVal(s[2]) + HexVal(s[3]))>>
            \o percent_decode_str(SubSeq(s, 4, Len(s)))
    ELSE <<Head(s)>> \o percent_decode_str(Tail(s))

\* decode_utf8() fails on a byte above 127 (the model has no multi-byte
\* sequences)
decode_utf8_fails(bytes) ==
    \E i \in 1..Len(bytes) : bytes[i] = "<not utf-8>"

\* input_path_to_segments that skips the piece before the leading "/" only,
\* as route_path_to_segments() does, in place of filtering the empty segments
input_path_to_segments_keeping_empty(path) ==
    LET pieces == Split(path, "/")
        kept == IF Head(pieces) = <<>> THEN Tail(pieces) ELSE pieces
        bad(segment) == \/ segment = <<".">>
                        \/ segment = <<".", ".">>
                        \/ decode_utf8_fails(percent_decode_str(segment))
    IN IF \E i \in 1..Len(kept) : bad(kept[i])
       THEN [err |-> "rejected", segments |-> <<>>]
       ELSE [err |-> "none",
             segments |-> [i \in 1..Len(kept) |-> percent_decode_str(kept[i])]]

\* input_path_to_segments that lets the dot-segments through
input_path_to_segments_with_dots(path) ==
    LET pieces == Split(path, "/")
        kept == SelectSeq(pieces, LAMBDA segment : segment # <<>>)
    IN IF \E i \in 1..Len(kept) : decode_utf8_fails(percent_decode_str(kept[i]))
       THEN [err |-> "invalid utf-8 sequence", segments |-> <<>>]
       ELSE [err |-> "none",
             segments |-> [i \in 1..Len(kept) |-> percent_decode_str(kept[i])]]

\* input_path_to_segments that percent-decodes the path before it splits it
input_path_to_segments_decoding_first(path) ==
    LET decoded == percent_decode_str(path)
        kept == SelectSeq(Split(decoded, "/"), LAMBDA segment : segment # <<>>)
    IN IF decode_utf8_fails(decoded)
       THEN [err |-> "invalid utf-8 sequence", segments |-> <<>>]
       ELSE IF \E i \in 1..Len(kept) : kept[i] \in {<<".">>, <<".", ".">>}
       THEN [err |-> "dot-segments are not permitted", segments |-> <<>>]
       ELSE [err |-> "none", segments |-> kept]

\* input_path_to_segments(): the decoded non-empty segments of a request
\* path, or the first error
input_path_to_segments(path) ==
    LET pieces == Split(path, "/")
        kept == SelectSeq(pieces, LAMBDA segment : segment # <<>>)
        bad(segment) == \/ segment = <<".">>
                        \/ segment = <<".", ".">>
                        \/ decode_utf8_fails(percent_decode_str(segment))
    IN IF \E i \in 1..Len(kept) : bad(kept[i])
       THEN LET first == CHOOSE i \in 1..Len(kept) :
                            bad(kept[i]) /\ \A j \in 1..(i - 1) : ~bad(kept[j])
            IN [err |-> IF kept[first] \in {<<".">>, <<".", ".">>}
                        THEN "dot-segments are not permitted"
                        ELSE "invalid utf-8 sequence",
                segments |-> <<>>]
       ELSE [err |-> "none",
             segments |-> [i \in 1..Len(kept) |-> percent_decode_str(kept[i])]]

\* ------------------------------------------------------------------ lookup

\* VariableValue::String replaced by a list of one component
VarString_as_components(s) == [kind |-> "Components", value |-> <<s>>]

\* VariableValue::Components that keeps the first component only
VarComponents_first(v) ==
    [kind |-> "Components", value |-> IF v = <<>> THEN <<>> ELSE <<Head(v)>>]

\* VariableValue::String(s)
VarString(s) == [kind |-> "String", value |-> s]

\* VariableValue::Components(v)
VarComponents(v) == [kind |-> "Components", value |-> v]

\* the results of lookup_route(): Ok(RouterLookupResult) with the handler's
\* endpoint and the variables, or an HttpError with its status code and Allow
\* header values, or a failed assertion
LookupOk(handler, variables) ==
    [status |-> 200, handler |-> Some(handler), variables |-> variables, allow |-> <<>>]

LookupErr(status, allow) ==
    [status |-> status, handler |-> None, variables |-> EmptyMap, allow |-> allow]

\* an assert!() of lookup_route() failed: the call panics
LookupPanic == [status |-> -1, handler |-> None, variables |-> EmptyMap, allow |-> <<>>]

\* no call has returned yet
NoRet == [status |-> 0, handler |-> None, variables |-> EmptyMap, allow |-> <<>>]

\* find_handler_matching_version that takes the first handler whatever the
\* version
find_handler_ignoring_version(handlers, version) ==
    IF handlers = <<>> THEN None ELSE Some(handlers[1])

\* find_handler_matching_version that gives an unversioned request the first
\* handler of the bucket
find_handler_unversioned_first(handlers, version) ==
    LET hits == {i \in 1..Len(handlers) :
                    version = None \/ matches(handlers[i].versions, version)}
    IN IF hits = {} THEN None
       ELSE Some(handlers[CHOOSE i \in hits : \A j \in hits : i <= j])

\* find_handler_matching_version(): the first handler matching the version
find_handler_matching_version(handlers, version) ==
    LET hits == {i \in 1..Len(handlers) : matches(handlers[i].versions, version)}
    IN IF hits = {} THEN None
       ELSE Some(handlers[CHOOSE i \in hits : \A j \in hits : i <= j])

\* the three assert!()s on the child of a wildcard edge
is_terminal(edge) ==
    edge.literal_edges = None /\ edge.variable_edge = None /\ edge.rest_edge = None

\* literal_child with the variable edge tried first: no literal edge is taken
\* at a node that has a variable edge
literal_child_after_variable(node, segment) ==
    IF node.variable_edge = None
          /\ node.literal_edges # None /\ segment \in DOMAIN node.literal_edges[1]
    THEN Some(node.literal_edges[1][segment])
    ELSE None

\* the literal edge of `node` for the segment, if any
literal_child(node, segment) ==
    IF node.literal_edges # None /\ segment \in DOMAIN node.literal_edges[1]
    THEN Some(node.literal_edges[1][segment])
    ELSE None

\* lookup_step that backtracks by one segment: it leaves a literal edge
\* aside when the literal child has no edge for the segment after
lookup_step_backtracking(node, all_segments, variables) ==
    LET segment == Head(all_segments)
        found == literal_child(node, segment)
        stuck == /\ found # None
                 /\ Tail(all_segments) # <<>>
                 /\ literal_child(found[1], Head(Tail(all_segments))) = None
                 /\ found[1].variable_edge = None
                 /\ found[1].rest_edge = None
        literal == IF stuck THEN None ELSE found
    IN IF literal # None
       THEN [outcome |-> "continue", node |-> literal[1],
             all_segments |-> Tail(all_segments), variables |-> variables]
       ELSE IF node.variable_edge # None
       THEN [outcome |-> "continue", node |-> node.variable_edge[1][2],
             all_segments |-> Tail(all_segments),
             variables |-> MapPut(variables, node.variable_edge[1][1],
                                  VarString(segment))]
       ELSE IF node.rest_edge # None
       THEN [outcome |-> IF is_terminal(node.rest_edge[1][2])
                         THEN "continue" ELSE "assert",
             node |-> node.rest_edge[1][2],
             all_segments |-> <<>>,
             variables |-> MapPut(variables, node.rest_edge[1][1],
                                  VarComponents(all_segments))]
       ELSE [outcome |-> "not_found", node |-> node,
             all_segments |-> all_segments, variables |-> variables]

\* one iteration of the while loop of lookup_route(): the literal edge, else
\* the variable edge, else the wildcard edge, else Not Found
lookup_step(node, all_segments, variables) ==
    LET segment == Head(all_segments)
        literal == literal_child(node, segment)
    IN IF literal # None
       THEN [outcome |-> "continue", node |-> literal[1],
             all_segments |-> Tail(all_segments), variables |-> variables]
       ELSE IF node.variable_edge # None
       THEN [outcome |-> "continue", node |-> node.variable_edge[1][2],
             all_segments |-> Tail(all_segments),
             variables |-> MapPut(variables, node.variable_edge[1][1],
                                  VarString(segment))]
       ELSE IF node.rest_edge # None
       THEN [outcome |-> IF is_terminal(node.rest_edge[1][2])
                         THEN "continue" ELSE "assert",
             node |-> node.rest_edge[1][2],
             all_segments |-> <<>>,
             variables |-> MapPut(variables, node.rest_edge[1][1],
                                  VarComponents(all_segments))]
       ELSE [outcome |-> "not_found", node |-> node,
             all_segments |-> all_segments, variables |-> variables]

\* allow_headers with each header replacing the one before it (HeaderMap
\* insert in place of append): the last key alone is left
allow_headers_replacing(node) ==
    LET keys == SortedKeys(DOMAIN node.methods)
    IN IF keys = <<>> THEN <<>> ELSE <<keys[Len(keys)]>>

\* the Allow header values of a 405: one per key of the node's methods
allow_headers(node) == SortedKeys(DOMAIN node.methods)

\* lookup_route() after the loop: the wildcard edge for the implicit empty
\* segment, the handler for the method and version, else 405 or 404
lookup_finish(reached, variables, method, version) ==
    LET follow == reached.rest_edge # None
        node == IF follow THEN reached.rest_edge[1][2] ELSE reached
        bound == IF follow
                 THEN MapPut(variables, reached.rest_edge[1][1], VarComponents(<<>>))
                 ELSE variables
        methodname == to_uppercase(method)
        handlers == IF methodname \in DOMAIN node.methods
                    THEN node.methods[methodname] ELSE <<>>
        handler == find_handler_matching_version(handlers, version)
    IN IF follow /\ ~is_terminal(node) THEN LookupPanic
       ELSE IF handler # None THEN LookupOk(handler[1], bound)
       ELSE IF \E m \in DOMAIN node.methods :
                  find_handler_matching_version(node.methods[m], version) # None
       THEN LookupErr(405, allow_headers(node))
       ELSE LookupErr(404, <<>>)

\* ------------------------------------------------------------------ inputs

GET == <<"G", "E", "T">>

PUT == <<"P", "U", "T">>

\* registration paths used while requests are served: "/", "/a", "/{x}",
\* "/{p:.*}" and "/{p:.*}/a"
ServePaths ==
    { <<"/">>,
      <<"/", "a">>,
      <<"/", "{", "x", "}">>,
      <<"/", "{", "p", ":", ".", "*", "}">>,
      <<"/", "{", "p", ":", ".", "*", "}", "/", "a">> }

ServeEndpoints ==
    [method : {GET, PUT}, path : ServePaths, versions : {All, From(1)}]

\* registration paths of the build phase: "/", "/a", "/a/", "/{x}", "/{y}",
\* "/{x:.*}", "/{y:.*}", "/{x}/{x}", "/{x}/{x:.*}" and "/{y:.*}/a"
BuildPaths ==
    { <<"/">>,
      <<"/", "a">>,
      <<"/", "a", "/">>,
      <<"/", "{", "x", "}">>,
      <<"/", "{", "y", "}">>,
      <<"/", "{", "x", ":", ".", "*", "}">>,
      <<"/", "{", "y", ":", ".", "*", "}">>,
      <<"/", "{", "x", "}", "/", "{", "x", "}">>,
      <<"/", "{", "x", "}", "/", "{", "x", ":", ".", "*", "}">>,
      <<"/", "{", "y", ":", ".", "*", "}", "/", "a">> }

BuildEndpoints ==
    [method : {GET, <<"g", "e", "t">>}, path : BuildPaths,
     versions : {All, From(1), From(2), Until(1)}]

\* request paths: "/", "/a", "/b" and "/a/b"
RequestPaths ==
    { <<"/">>, <<"/", "a">>, <<"/", "b">>, <<"/", "a", "/", "b">> }

RequestMethods == {GET, <<"p", "u", "t">>}

RequestVersions == {None} \cup {Some(v) : v \in 0..MaxVersion}

\* ------------------------------------------------------------------- state

VARIABLES
    router,        \* the HttpRouter
    panicked,      \* the panic that ended the program, or NoPanic
    call,          \* the call in progress or last made, with its arguments
    pc,            \* "idle", or "walk" inside lookup_route()
    node,          \* lookup_route(): the node reached
    all_segments,  \* lookup_route(): the segments not consumed yet
    variables,     \* lookup_route(): the variables bound so far
    ret,           \* what the last lookup_route() returned
    iter,          \* the HttpRouterIter borrowed from the router, or NoIter
    yielded        \* what the calls of next() on it returned, in order

vars == <<router, panicked, call, pc, node, all_segments, variables, ret,
          iter, yielded>>

\* the endpoints stored below a node, in preorder: the node's methods by key,
\* then the literal children by key, the variable child, the wildcard child
RECURSIVE stored_endpoints(_)
RECURSIVE concat_all(_)
concat_all(seqs) ==
    IF seqs = <<>> THEN <<>> ELSE Head(seqs) \o concat_all(Tail(seqs))

stored_endpoints(n) ==
    LET methodnames == SortedKeys(DOMAIN n.methods)
        own == concat_all([i \in 1..Len(methodnames) |-> n.methods[methodnames[i]]])
        edges == IF n.literal_edges = None THEN EmptyMap ELSE n.literal_edges[1]
        literals == SortedKeys(DOMAIN edges)
    IN own
        \o concat_all([i \in 1..Len(literals) |-> stored_endpoints(edges[literals[i]])])
        \o (IF n.variable_edge = None THEN <<>>
            ELSE stored_endpoints(n.variable_edge[1][2]))
        \o (IF n.rest_edge = None THEN <<>>
            ELSE stored_endpoints(n.rest_edge[1][2]))

NoCall == [op |-> "none"]

\* no iterator borrows the router
NoIter == [version |-> None, method |-> <<>>, path |-> <<>>, live |-> FALSE]

Init ==
    /\ router = NewRouter
    /\ panicked = NoPanic
    /\ call = NoCall
    /\ pc = "idle"
    /\ node = NewNode
    /\ all_segments = <<>>
    /\ variables = EmptyMap
    /\ ret = NoRet
    /\ iter = NoIter
    /\ yielded = <<>>

\* router.insert(endpoint) during the build phase; a panic ends the program.
\* insert() takes &mut self: no iterator borrows the router
InsertUpTo(endpoints, bound) ==
    /\ pc = "idle"
    /\ panicked = NoPanic
    /\ iter = NoIter
    /\ Len(stored_endpoints(router.root)) < bound
    /\ \E endpoint \in endpoints :
         LET done == insert(router, endpoint)
         IN /\ router' = done.router
            /\ panicked' = done.panic
            /\ call' = [op |-> "insert", endpoint |-> endpoint]
    /\ ret' = NoRet
    /\ UNCHANGED <<pc, node, all_segments, variables, iter, yielded>>

InsertFrom(endpoints) == InsertUpTo(endpoints, MaxInserts)

Insert == InsertFrom(ServeEndpoints)

InsertBuild == InsertFrom(BuildEndpoints)

\* lookup_route(method, path, version) up to the while loop
LookupBeginFrom(methods, paths, versions) ==
    /\ pc = "idle"
    /\ panicked = NoPanic
    /\ \E method \in methods, path \in paths, version \in versions :
         LET parsed == input_path_to_segments(path)
         IN /\ call' = [op |-> "lookup", method |-> method, path |-> path,
                        version |-> version]
            /\ IF parsed.err # "none"
               THEN /\ ret' = LookupErr(400, <<>>)
                    /\ UNCHANGED <<pc, node, all_segments, variables>>
               ELSE /\ ret' = NoRet
                    /\ pc' = "walk"
                    /\ node' = router.root
                    /\ all_segments' = parsed.segments
                    /\ variables' = EmptyMap
    /\ UNCHANGED <<router, panicked, iter, yielded>>

LookupBegin == LookupBeginFrom(RequestMethods, RequestPaths, RequestVersions)

\* one iteration of the while loop
LookupStep ==
    /\ pc = "walk"
    /\ all_segments # <<>>
    /\ LET step == lookup_step(node, all_segments, variables)
       IN IF step.outcome = "continue"
          THEN /\ node' = step.node
               /\ all_segments' = step.all_segments
               /\ variables' = step.variables
               /\ UNCHANGED <<pc, ret>>
          ELSE /\ ret' = IF step.outcome = "assert"
                         THEN LookupPanic ELSE LookupErr(404, <<>>)
               /\ pc' = "idle"
               /\ node' = NewNode
               /\ all_segments' = <<>>
               /\ variables' = EmptyMap
    /\ UNCHANGED <<router, panicked, call, iter, yielded>>

\* LookupFinish that records in the router that a versioned request was seen
LookupFinish_marking ==
    /\ pc = "walk"
    /\ all_segments = <<>>
    /\ ret' = lookup_finish(node, variables, call.method, call.version)
    /\ router' = [router EXCEPT !.has_versioned_routes = @ \/ call.version # None]
    /\ pc' = "idle"
    /\ node' = NewNode
    /\ variables' = EmptyMap
    /\ UNCHANGED <<panicked, call, all_segments, iter, yielded>>

\* the rest of lookup_route(), once no segment is left
LookupFinish ==
    /\ pc = "walk"
    /\ all_segments = <<>>
    /\ ret' = lookup_finish(node, variables, call.method, call.version)
    /\ pc' = "idle"
    /\ node' = NewNode
    /\ variables' = EmptyMap
    /\ UNCHANGED <<router, panicked, call, all_segments, iter, yielded>>

Next == Insert \/ LookupBegin \/ LookupStep \/ LookupFinish

Spec == Init /\ [][Next]_vars

NextBuild == InsertBuild

SpecBuild == Init /\ [][NextBuild]_vars

\* ------------------------------------------------------------- properties

A == <<"a">>

RootLiterals ==
    IF router.root.literal_edges = None THEN EmptyMap ELSE router.root.literal_edges[1]

\* the literal edges of the node lookup_route() is at
NodeLiterals == IF node.literal_edges = None THEN EmptyMap ELSE node.literal_edges[1]

\* whether some handler of the bucket matches the version
SomeMatch(handlers, version) ==
    \E i \in 1..Len(handlers) : matches(handlers[i].versions, version)

\* the bucket of a node for a request method
Bucket(n, method) ==
    IF to_uppercase(method) \in DOMAIN n.methods
    THEN n.methods[to_uppercase(method)] ELSE <<>>

\* the node whose handlers lookup_route() consults once no segment is left:
\* the child of the reached node's wildcard edge if it has one
Resolved == IF node.rest_edge # None THEN node.rest_edge[1][2] ELSE node

\* no edge of the node lookup_route() is at takes the next segment
DeadEnd ==
    /\ all_segments # <<>>
    /\ Head(all_segments) \notin DOMAIN NodeLiterals
    /\ node.variable_edge = None
    /\ node.rest_edge = None

\* C1: at a node with literal edges and a variable edge, a segment equal to a
\* literal edge goes to that literal child and binds nothing; any other
\* segment goes to the variable child and binds the variable to the segment.
C1_LiteralBeforeVariable ==
    [][(pc = "walk" /\ all_segments # <<>>
            /\ node.literal_edges # None /\ node.variable_edge # None)
        => IF Head(all_segments) \in DOMAIN NodeLiterals
           THEN /\ node' = NodeLiterals[Head(all_segments)]
                /\ variables' = variables
                /\ all_segments' = Tail(all_segments)
           ELSE /\ node' = node.variable_edge[1][2]
                /\ variables' = MapPut(variables, node.variable_edge[1][1],
                                       VarString(Head(all_segments)))
                /\ all_segments' = Tail(all_segments)]_vars

\* C1 witness: with "/a" and "/{x}" both registered, GET /a returned the
\* handler of "/a" with no variable bound.
C1_Witness ==
    /\ A \in DOMAIN RootLiterals
    /\ router.root.variable_edge # None
    /\ call.op = "lookup" /\ call.path = <<"/", "a">>
    /\ ret.status = 200
    /\ ret.handler[1].path = <<"/", "a">>
    /\ ret.variables = EmptyMap

\* C2 (as claimed): once no segment is left at a node that has an endpoint
\* for the request method matching the version, lookup returns that endpoint
\* and binds no wildcard variable.
C2_OwnEndpointBeforeWildcard ==
    [][(pc = "walk" /\ all_segments = <<>>
            /\ SomeMatch(Bucket(node, call.method), call.version))
        => /\ ret'.status = 200
           /\ \E i \in 1..Len(Bucket(node, call.method)) :
                ret'.handler[1] = Bucket(node, call.method)[i]
           /\ ret'.variables = variables]_vars

\* C3 (as claimed): the Allow values of a 405 are exactly the methods of the
\* resolved node that have an endpoint matching the requested version.
C3_AllowOnlyMatchingMethods ==
    [][(pc = "walk" /\ all_segments = <<>> /\ ret'.status = 405)
        => {ret'.allow[i] : i \in 1..Len(ret'.allow)}
              = {m \in DOMAIN Resolved.methods :
                    SomeMatch(Resolved.methods[m], call.version)}]_vars

\* C4: a 405 carries exactly one Allow value per key of the resolved node's
\* methods map.
C4_AllowEveryMethodKey ==
    [][(pc = "walk" /\ ret'.status = 405)
        => /\ all_segments = <<>>
           /\ {ret'.allow[i] : i \in 1..Len(ret'.allow)} = DOMAIN Resolved.methods
           /\ Len(ret'.allow) = Cardinality(DOMAIN Resolved.methods)]_vars

\* C4 witness: a 405 that lists two methods.
C4_Witness == ret.status = 405 /\ Len(ret.allow) = 2

\* C5: a lookup of a well-formed path that returns no handler returns 405
\* exactly when the walk consumed every segment and, at the resolved node,
\* some endpoint under another method matches the version; it returns 404 at
\* a dead end and when no method of the resolved node matches the version.
C5_MissIs405Or404 ==
    [][(pc = "walk" /\ pc' = "idle" /\ ret'.status # 200)
        => LET other == \E m \in DOMAIN Resolved.methods \ {to_uppercase(call.method)} :
                            SomeMatch(Resolved.methods[m], call.version)
           IN /\ ret'.status \in {404, 405}
              /\ ret'.status = 405 <=> (all_segments = <<>> /\ other)
              /\ ret'.status = 404 <=> (DeadEnd \/ (all_segments = <<>> /\ ~other))]_vars

\* C5 witness: a request for a registered path with a method that has no
\* endpoint there, answered 405.
C5_Witness ==
    /\ call.op = "lookup"
    /\ ret.status = 405
    /\ \E i \in 1..Len(stored_endpoints(router.root)) :
         stored_endpoints(router.root)[i].method # to_uppercase(call.method)

\* the nodes of the trie below and including n
RECURSIVE nodes_of(_)
nodes_of(n) ==
    LET edges == IF n.literal_edges = None THEN EmptyMap ELSE n.literal_edges[1]
    IN {n}
        \cup UNION {nodes_of(edges[k]) : k \in DOMAIN edges}
        \cup (IF n.variable_edge = None THEN {} ELSE nodes_of(n.variable_edge[1][2]))
        \cup (IF n.rest_edge = None THEN {} ELSE nodes_of(n.rest_edge[1][2]))

Stored == stored_endpoints(router.root)

\* the raw segments of a registration path that insert() walks; none if the
\* path is rejected as a whole
RawSegments(path) == route_path_to_segments(path).segments

WellSplit(path) == route_path_to_segments(path).panic = NoPanic

\* raw segment i of the path names a variable (of either kind)
IsVarAt(path, i) ==
    /\ i \in 1..Len(RawSegments(path))
    /\ PathSegment_from(RawSegments(path)[i]).kind \in {"VarnameSegment", "VarnameWildcard"}

KindAt(path, i) == PathSegment_from(RawSegments(path)[i]).kind

NameAt(path, i) == PathSegment_from(RawSegments(path)[i]).name

\* two registration paths resolve to the same node
SameNode(p, q) == WellSplit(p) /\ WellSplit(q) /\ RawSegments(p) = RawSegments(q)

\* two registration paths reach the same parent node and name variables
\* differently in the segment after it
NamesDisagree(p, q) ==
    /\ WellSplit(p) /\ WellSplit(q)
    /\ \E i \in 1..Len(RawSegments(p)) :
         /\ IsVarAt(p, i) /\ IsVarAt(q, i)
         /\ SubSeq(RawSegments(p), 1, i - 1) = SubSeq(RawSegments(q), 1, i - 1)
         /\ NameAt(p, i) # NameAt(q, i)

\* the same, with both segments of the same kind
SameKindNamesDisagree(p, q) ==
    /\ WellSplit(p) /\ WellSplit(q)
    /\ \E i \in 1..Len(RawSegments(p)) :
         /\ IsVarAt(p, i) /\ IsVarAt(q, i)
         /\ SubSeq(RawSegments(p), 1, i - 1) = SubSeq(RawSegments(q), 1, i - 1)
         /\ KindAt(p, i) = KindAt(q, i)
         /\ NameAt(p, i) # NameAt(q, i)

\* a variable name occurs in two segments of the path
RepeatsVarname(path) ==
    /\ WellSplit(path)
    /\ \E i, j \in 1..Len(RawSegments(path)) :
         i < j /\ IsVarAt(path, i) /\ IsVarAt(path, j) /\ NameAt(path, i) = NameAt(path, j)

\* a segment follows a wildcard segment of the path
SegmentAfterWildcard(path) ==
    /\ WellSplit(path)
    /\ \E i \in 1..(Len(RawSegments(path)) - 1) : KindAt(path, i) = "VarnameWildcard"

\* C6: no version is matched by two endpoints of one method bucket, and an
\* insert whose predicate overlaps one already stored for the same node and
\* upper-cased method panics and stores nothing.
C6_NoOverlapInBucket ==
    /\ [](\A n \in nodes_of(router.root) : \A m \in DOMAIN n.methods :
            \A i, j \in 1..Len(n.methods[m]) :
                i # j => /\ ~overlaps_with(n.methods[m][i].versions, n.methods[m][j].versions)
                         /\ \A v \in RequestVersions :
                              ~(matches(n.methods[m][i].versions, v)
                                    /\ matches(n.methods[m][j].versions, v)))
    /\ [][(call'.op = "insert"
            /\ \E i \in 1..Len(Stored) :
                 /\ SameNode(Stored[i].path, call'.endpoint.path)
                 /\ to_uppercase(Stored[i].method) = to_uppercase(call'.endpoint.method)
                 /\ overlaps_with(Stored[i].versions, call'.endpoint.versions))
           => (panicked' # NoPanic
                 /\ stored_endpoints(router'.root) = Stored)]_vars

\* C6 witness: GET "/a" From(1) is stored and the insert of get "/a/"
\* From(2) panicked on the overlap.
C6_Witness ==
    /\ panicked = "overlapping version ranges"
    /\ Len(Stored) = 1
    /\ Stored[1].method # call.endpoint.method
    /\ Stored[1].path # call.endpoint.path

\* C7 (as claimed): an insert that disagrees with a stored route on the
\* variable name at a shared position panics, whatever the kinds of the two
\* segments.
C7_AnyNameDisagreementFails ==
    [][(call'.op = "insert"
            /\ \E i \in 1..Len(Stored) : NamesDisagree(Stored[i].path, call'.endpoint.path))
        => panicked' # NoPanic]_vars

\* C7 (amended): an insert that disagrees with a stored route on the variable
\* name at a shared position panics when the two segments are of the same
\* kind (both single-segment variables or both wildcards).
C7_SameKindNameDisagreementFails ==
    [][(call'.op = "insert"
            /\ \E i \in 1..Len(Stored) :
                 SameKindNamesDisagree(Stored[i].path, call'.endpoint.path))
        => (panicked' # NoPanic /\ stored_endpoints(router'.root) = Stored)]_vars

\* C7 witness: "/{x:.*}" is stored and the insert of "/{y:.*}" panicked on
\* the name.
C7_Witness ==
    /\ panicked = "a different name has already been used"
    /\ call.endpoint.path = <<"/", "{", "y", ":", ".", "*", "}">>
    /\ Len(Stored) = 1

\* C8: an insert of a path that uses a variable name in two segments (single
\* or wildcard) panics, and no stored endpoint's path repeats a name.
C8_NoRepeatedVarname ==
    /\ (call.op = "insert" /\ RepeatsVarname(call.endpoint.path)) => panicked # NoPanic
    /\ \A i \in 1..Len(Stored) : ~RepeatsVarname(Stored[i].path)

\* C8 witness: the insert of "/{x}/{x:.*}" panicked on the repeated name.
C8_Witness ==
    /\ call.op = "insert"
    /\ call.endpoint.path = <<"/", "{", "x", "}", "/", "{", "x", ":", ".", "*", "}">>
    /\ panicked = "variable name is used more than once"

\* C9: the child of every wildcard edge has no edges, an insert of a path
\* with a segment after a wildcard segment panics, and no assertion of
\* lookup_route() fails.
C9_WildcardChildTerminal ==
    /\ \A n \in nodes_of(router.root) :
         n.rest_edge # None =>
            /\ n.rest_edge[1][2].literal_edges = None
            /\ n.rest_edge[1][2].variable_edge = None
            /\ n.rest_edge[1][2].rest_edge = None
    /\ (call.op = "insert" /\ SegmentAfterWildcard(call.endpoint.path))
            => panicked # NoPanic
    /\ ret.status # -1

\* C9 witness: a lookup that went through a wildcard edge and passed the
\* assertions.
C9_Witness ==
    /\ call.op = "lookup"
    /\ ret.status = 200
    /\ \E k \in DOMAIN ret.variables : ret.variables[k].kind = "Components"

\* C10: has_versioned_routes() is true exactly when some stored endpoint has
\* a predicate other than All, and once true it stays true.
C10_HasVersionedRoutes ==
    /\ [](has_versioned_routes(router)
            <=> \E i \in 1..Len(Stored) : Stored[i].versions # All)
    /\ [][has_versioned_routes(router) => has_versioned_routes(router')]_vars

\* C10 witness: an All endpoint and an Until endpoint are stored and the flag
\* is set.
C10_Witness ==
    /\ has_versioned_routes(router)
    /\ \E i, j \in 1..Len(Stored) :
         Stored[i].versions = All /\ Stored[j].versions.kind = "Until"

VersionedPredicates ==
    {Until(u) : u \in 1..MaxVersion}
        \cup {From(l) : l \in 0..MaxVersion}
        \cup {FromUntil(range[1], range[2]) :
                range \in {r \in (0..MaxVersion) \X (1..MaxVersion) : r[1] < r[2]}}

\* one route, GET "/a", registered for several ranges (test_router_versioned)
VersionedEndpoints ==
    [method : {GET}, path : {<<"/", "a">>}, versions : VersionedPredicates]

InsertVersioned == InsertFrom(VersionedEndpoints)

LookupVersioned == LookupBeginFrom({GET}, {<<"/", "a">>}, RequestVersions)

NextVersioned == InsertVersioned \/ LookupVersioned \/ LookupStep \/ LookupFinish

SpecVersioned == Init /\ [][NextVersioned]_vars

\* whether version v lies in the range: lower bounds inclusive, upper bounds
\* exclusive
InRange(versions, v) ==
    CASE versions.kind = "All" -> TRUE
      [] versions.kind = "From" -> versions.earliest <= v
      [] versions.kind = "Until" -> v < versions.until
      [] versions.kind = "FromUntil" -> versions.earliest <= v /\ v < versions.until

\* the stored endpoints registered at the request's path, for any method
AtRequestPath ==
    {i \in 1..Len(Stored) :
        RawSegments(Stored[i].path) = input_path_to_segments(call.path).segments}

\* C12: a lookup with version Some(v) at a node whose bucket holds ranges
\* returns the endpoint of the request method whose range contains v (lower
\* bounds inclusive, upper bounds exclusive), and 404 when v is in no range
\* registered at the node.
C12_RangeContainingVersion ==
    (call.op = "lookup" /\ pc = "idle" /\ call.version # None)
        => LET v == call.version[1]
               mine == {i \in AtRequestPath :
                           Stored[i].method = to_uppercase(call.method)}
           IN /\ ret.status = 200
                    => \E i \in mine : /\ ret.handler[1] = Stored[i]
                                        /\ InRange(Stored[i].versions, v)
              /\ (\E i \in mine : InRange(Stored[i].versions, v))
                    => ret.status = 200
              /\ (\A i \in AtRequestPath : ~InRange(Stored[i].versions, v))
                    => ret.status = 404

\* C12 witness: Until(1) and From(2) are registered and version 1, in the gap
\* between them, got 404.
C12_Witness ==
    /\ call.op = "lookup" /\ pc = "idle" /\ call.version = Some(1)
    /\ {Stored[i].versions : i \in 1..Len(Stored)} = {Until(1), From(2)}
    /\ ret.status = 404

\* C12 witness of the bounds: FromUntil(0, 1) and FromUntil(1, 2) are
\* registered and version 1 got the second.
C12_WitnessBound ==
    /\ call.op = "lookup" /\ pc = "idle" /\ call.version = Some(1)
    /\ {Stored[i].versions : i \in 1..Len(Stored)} = {FromUntil(0, 1), FromUntil(1, 2)}
    /\ ret.status = 200
    /\ ret.handler[1].versions = FromUntil(1, 2)

\* ------------------------------------------------------ walks of the trie

\* the while loop of lookup_route() from a node, then the rest of the function
RECURSIVE lookup_from(_, _, _, _, _)
lookup_from(from, segments, bound, method, version) ==
    IF segments = <<>> THEN lookup_finish(from, bound, method, version)
    ELSE LET step == lookup_step(from, segments, bound)
         IN CASE step.outcome = "continue" ->
                    lookup_from(step.node, step.all_segments, step.variables,
                                method, version)
              [] step.outcome = "assert" -> LookupPanic
              [] step.outcome = "not_found" -> LookupErr(404, <<>>)

\* lookup_route(method, path, version) as one function of the router
lookup_route(r, method, path, version) ==
    LET parsed == input_path_to_segments(path)
    IN IF parsed.err # "none" THEN LookupErr(400, <<>>)
       ELSE lookup_from(r.root, parsed.segments, EmptyMap, method, version)

\* registration paths with two levels: "/a", "/a/b", "/{x}", "/{x}/b",
\* "/{x}/{y}", "/{p:.*}" and "/a/{p:.*}"
WalkPaths ==
    { <<"/", "a">>,
      <<"/", "a", "/", "b">>,
      <<"/", "{", "x", "}">>,
      <<"/", "{", "x", "}", "/", "b">>,
      <<"/", "{", "x", "}", "/", "{", "y", "}">>,
      <<"/", "{", "p", ":", ".", "*", "}">>,
      <<"/", "a", "/", "{", "p", ":", ".", "*", "}">> }

WalkEndpoints == [method : {GET, PUT}, path : WalkPaths, versions : {All}]

\* request paths: "/", "/a", "/b", "/a/b", "/b/b", "/a/b/b", "/%62", the
\* same with more slashes ("", "a", "//a", "/a/", "/a//b", "//a//b/",
\* "a/b"), and with dot-segments ("/.", "/..", "/a/./b", "/a/..", "/../a")
WalkRequests ==
    { <<"/">>,
      <<"/", "a">>,
      <<"/", "b">>,
      <<"/", "a", "/", "b">>,
      <<"/", "b", "/", "b">>,
      <<"/", "a", "/", "b", "/", "b">>,
      <<"/", "%", "6", "2">>,
      <<>>,
      <<"a">>,
      <<"/", "/", "a">>,
      <<"/", "a", "/">>,
      <<"/", "a", "/", "/", "b">>,
      <<"/", "/", "a", "/", "/", "b", "/">>,
      <<"a", "/", "b">>,
      <<"/", ".">>,
      <<"/", ".", ".">>,
      <<"/", "a", "/", ".", "/", "b">>,
      <<"/", "a", "/", ".", ".">>,
      <<"/", ".", ".", "/", "a">> }

InsertWalk == InsertFrom(WalkEndpoints)

LookupWalk == LookupBeginFrom({GET}, WalkRequests, {None})

NextWalk == InsertWalk \/ LookupWalk \/ LookupStep \/ LookupFinish

SpecWalk == Init /\ [][NextWalk]_vars

\* a path with every run of "/" collapsed to one
RECURSIVE Collapse(_)
Collapse(s) ==
    IF Len(s) < 2 THEN s
    ELSE IF s[1] = "/" /\ s[2] = "/" THEN Collapse(Tail(s))
    ELSE <<s[1]>> \o Collapse(Tail(s))

\* a path without its leading, trailing and repeated "/"
Squeeze(s) ==
    LET c == Collapse(s)
        first == IF c # <<>> /\ c[1] = "/" THEN 2 ELSE 1
        last == IF Len(c) >= first /\ c[Len(c)] = "/" THEN Len(c) - 1 ELSE Len(c)
    IN SubSeq(c, first, last)

\* a lookup_route() call has returned and nothing was called since
Returned == call.op = "lookup" /\ pc = "idle"

\* C13: request paths that differ only in leading, trailing or repeated "/"
\* have the same lookup outcome on every router, for the same method and
\* version: the same handler and variables, or the same error.
C13_SlashesDoNotMatter ==
    Returned
        => \A other \in WalkRequests :
              Squeeze(other) = Squeeze(call.path)
                  => lookup_route(router, call.method, other, call.version) = ret

\* C13 witness: "/{x}/b" is registered and the request "//a//b/" returned it
\* with x = a.
C13_Witness ==
    /\ Returned
    /\ call.path = <<"/", "/", "a", "/", "/", "b", "/">>
    /\ ret.status = 200
    /\ ret.handler[1].path = <<"/", "{", "x", "}", "/", "b">>
    /\ ret.variables[<<"x">>].value = <<"a">>

\* whether the characters i..j of the path stand between "/" or the ends
IsSegment(path, i, j) ==
    /\ i = 1 \/ path[i - 1] = "/"
    /\ j = Len(path) \/ path[j + 1] = "/"

\* whether the path has a segment equal to "." or ".."
HasDotSegment(path) ==
    \E i \in 1..Len(path) :
        \/ path[i] = "." /\ IsSegment(path, i, i)
        \/ /\ i < Len(path) /\ path[i] = "." /\ path[i + 1] = "."
           /\ IsSegment(path, i, i + 1)

\* C14: lookup_route() on a request path with a segment equal to "." or ".."
\* returns 400 before it walks the trie, with no handler and no variables,
\* whatever is registered.
C14_DotSegmentsRejected ==
    (call.op = "lookup" /\ HasDotSegment(call.path))
        => /\ pc = "idle"
           /\ ret.status = 400
           /\ ret.handler = None
           /\ ret.variables = EmptyMap

\* C14 witness: the wildcard route "/{p:.*}" is registered and the request
\* "/a/.." got 400.
C14_Witness ==
    /\ Returned
    /\ router.root.rest_edge # None
    /\ GET \in DOMAIN router.root.rest_edge[1][2].methods
    /\ call.path = <<"/", "a", "/", ".", ".">>
    /\ ret.status = 400

\* the decoded segments of the request of the last lookup
Requested == input_path_to_segments(call.path).segments

\* the registered path of the handler the last lookup returned, in segments
Matched == RawSegments(ret.handler[1].path)

\* whether a registered path ends in a wildcard segment
EndsInWildcard(segments) ==
    segments # <<>> /\ PathSegment_from(segments[Len(segments)]).kind = "VarnameWildcard"

\* C15: a lookup that matched through a wildcard edge binds the wildcard
\* variable to the Components list of the request segments from the wildcard
\* position on, in order, the empty list when none is left; no other lookup
\* binds a Components value.
C15_WildcardBindsTheRest ==
    (Returned /\ ret.status = 200)
        => IF EndsInWildcard(Matched)
           THEN LET at == Len(Matched)
                    name == PathSegment_from(Matched[at]).name
                IN /\ name \in DOMAIN ret.variables
                   /\ ret.variables[name].kind = "Components"
                   /\ ret.variables[name].value = SubSeq(Requested, at, Len(Requested))
                   /\ \A k \in DOMAIN ret.variables \ {name} :
                          ret.variables[k].kind = "String"
           ELSE \A k \in DOMAIN ret.variables : ret.variables[k].kind = "String"

\* C15 witness: "/a/{p:.*}" matched "/a/b/b" with p = [b, b].
C15_Witness ==
    /\ Returned /\ ret.status = 200
    /\ call.path = <<"/", "a", "/", "b", "/", "b">>
    /\ ret.handler[1].path = <<"/", "a", "/", "{", "p", ":", ".", "*", "}">>
    /\ ret.variables[<<"p">>].value = << <<"b">>, <<"b">> >>

\* C15 witness of the empty list: "/{p:.*}" matched "/" with p = [].
C15_WitnessEmpty ==
    /\ Returned /\ ret.status = 200
    /\ call.path = <<"/">>
    /\ <<"p">> \in DOMAIN ret.variables
    /\ ret.variables[<<"p">>].value = <<>>

\* the positions of the single-segment variables of a registered path
VariablePositions(segments) ==
    {i \in 1..Len(segments) : PathSegment_from(segments[i]).kind = "VarnameSegment"}

\* C16: on a successful lookup every single-segment variable of the matched
\* route is bound to the String of the non-empty decoded request segment at
\* its position, there is one String entry per such variable, the literal
\* segments equal the request's, and a route without wildcard matches
\* requests of exactly its number of segments.
C16_VariableBindsOneSegment ==
    (Returned /\ ret.status = 200)
        => LET fixed == IF EndsInWildcard(Matched)
                        THEN Len(Matched) - 1 ELSE Len(Matched)
               strings == {k \in DOMAIN ret.variables :
                              ret.variables[k].kind = "String"}
           IN /\ Len(Requested) >= fixed
              /\ ~EndsInWildcard(Matched) => Len(Requested) = fixed
              /\ \A i \in 1..fixed :
                    /\ Requested[i] # <<>>
                    /\ IF i \in VariablePositions(Matched)
                       THEN LET name == PathSegment_from(Matched[i]).name
                            IN /\ name \in strings
                               /\ ret.variables[name].value = Requested[i]
                       ELSE Requested[i] = Matched[i]
              /\ Cardinality(strings) = Cardinality(VariablePositions(Matched))

\* C16 witness: "/{x}/{y}" matched "/b/b" with two String entries.
C16_Witness ==
    /\ Returned /\ ret.status = 200
    /\ call.path = <<"/", "b", "/", "b">>
    /\ DOMAIN ret.variables = {<<"x">>, <<"y">>}
    /\ ret.variables[<<"x">>] = [kind |-> "String", value |-> <<"b">>]

\* C16 witness of the decoding: "/{x}" matched "/%62" with x = b.
C16_WitnessDecoded ==
    /\ Returned /\ ret.status = 200
    /\ call.path = <<"/", "%", "6", "2">>
    /\ <<"x">> \in DOMAIN ret.variables
    /\ ret.variables[<<"x">>].value = <<"b">>

\* whether some stored route agrees with the first i - 1 segments of a
\* registered path and has, at position i, a segment that satisfies `test`
SiblingAt(segments, i, test(_)) ==
    \E e \in 1..Len(Stored) :
        LET other == RawSegments(Stored[e].path)
        IN /\ Len(other) >= i
           /\ SubSeq(other, 1, i - 1) = SubSeq(segments, 1, i - 1)
           /\ test(other[i])

\* C17: lookup never backtracks. A successful lookup went, at every node,
\* by the literal edge if the node had one for the segment, else by the
\* variable edge if the node had one, else by the wildcard edge; and a
\* request whose first segment is a literal edge of the root either returns
\* a route below that edge or fails, whatever the variable routes.
C17_NoBacktracking ==
    /\ (Returned /\ ret.status = 200)
          => \A i \in 1..Len(Matched) :
                LET kind == PathSegment_from(Matched[i]).kind
                IN (i <= Len(Requested) /\ kind # "Literal")
                      => /\ ~SiblingAt(Matched, i, LAMBDA seg : seg = Requested[i])
                         /\ kind = "VarnameWildcard"
                              => ~SiblingAt(Matched, i,
                                    LAMBDA seg : PathSegment_from(seg).kind = "VarnameSegment")
    /\ (Returned /\ ret.status # 400 /\ Requested # <<>>
            /\ Requested[1] \in DOMAIN RootLiterals)
          => \/ ret.status \in {404, 405}
             \/ ret.status = 200 /\ Matched[1] = Requested[1]

\* C17 witness: with "/a" and "/{x}/b" registered, the request "/a/b" got
\* 404 although "/{x}/b" would match it.
C17_Witness ==
    /\ Returned
    /\ call.path = <<"/", "a", "/", "b">>
    /\ {Stored[i].path : i \in 1..Len(Stored)}
          = {<<"/", "a">>, <<"/", "{", "x", "}", "/", "b">>}
    /\ ret.status = 404

\* C17 witness of the other request: with the same routes, "/b/b" returned
\* "/{x}/b".
C17_WitnessVariable ==
    /\ Returned
    /\ call.path = <<"/", "b", "/", "b">>
    /\ {Stored[i].path : i \in 1..Len(Stored)}
          = {<<"/", "a">>, <<"/", "{", "x", "}", "/", "b">>}
    /\ ret.status = 200
    /\ ret.handler[1].path = <<"/", "{", "x", "}", "/", "b">>

\* ------------------------------------------------------------ the iterator

\* the PathSegment values the iterator keeps on its stack
Literal(s) == [kind |-> "Literal", name |-> s]

VarnameSegment(s) == [kind |-> "VarnameSegment", name |-> s]

VarnameWildcard(s) == [kind |-> "VarnameWildcard", name |-> s]

\* iter_handlers_from_node without the version filter
iter_handlers_from_node_unfiltered(n, version) ==
    LET methodnames == SortedKeys(DOMAIN n.methods)
    IN concat_all([i \in 1..Len(methodnames) |->
          [j \in 1..Len(n.methods[methodnames[i]]) |->
              <<methodnames[i], n.methods[methodnames[i]][j]>>]])

\* iter_handlers_from_node(): the (method, endpoint) pairs of a node whose
\* predicate matches the version, methods by key, handlers as stored
iter_handlers_from_node(n, version) ==
    LET methodnames == SortedKeys(DOMAIN n.methods)
    IN concat_all([i \in 1..Len(methodnames) |->
          LET handlers == SelectSeq(n.methods[methodnames[i]],
                                    LAMBDA h : matches(h.versions, version))
          IN [j \in 1..Len(handlers) |-> <<methodnames[i], handlers[j]>>]])

\* iter_node with the variable edge before the literal edges
iter_node_variable_first(n) ==
    LET edges == IF n.literal_edges = None THEN EmptyMap ELSE n.literal_edges[1]
        literals == SortedKeys(DOMAIN edges)
    IN (IF n.variable_edge = None THEN <<>>
        ELSE << <<VarnameSegment(n.variable_edge[1][1]), n.variable_edge[1][2]>> >>)
        \o [i \in 1..Len(literals) |-> <<Literal(literals[i]), edges[literals[i]]>>]
        \o (IF n.rest_edge = None THEN <<>>
            ELSE << <<VarnameSegment(n.rest_edge[1][1]), n.rest_edge[1][2]>> >>)

\* iter_node(): the (segment, child) pairs of a node: the literal edges by
\* key, the variable edge, the wildcard edge. The wildcard edge is given a
\* VarnameSegment, as the variable edge is.
iter_node(n) ==
    LET edges == IF n.literal_edges = None THEN EmptyMap ELSE n.literal_edges[1]
        literals == SortedKeys(DOMAIN edges)
    IN [i \in 1..Len(literals) |-> <<Literal(literals[i]), edges[literals[i]]>>]
        \o (IF n.variable_edge = None THEN <<>>
            ELSE << <<VarnameSegment(n.variable_edge[1][1]), n.variable_edge[1][2]>> >>)
        \o (IF n.rest_edge = None THEN <<>>
            ELSE << <<VarnameSegment(n.rest_edge[1][1]), n.rest_edge[1][2]>> >>)

\* HttpRouterIter::new(): the root's handlers and a stack holding the
\* placeholder segment with the root's children
HttpRouterIter_new(r, version) ==
    [version |-> version,
     method |-> iter_handlers_from_node(r.root, version),
     path |-> << [segment |-> Literal(<<>>), children |-> iter_node(r.root)] >>,
     live |-> TRUE]

\* HttpRouter::endpoints(version)
endpoints(r, version) == HttpRouterIter_new(r, version)

\* the text of one PathSegment in HttpRouterIter::path()
format_segment(segment) ==
    CASE segment.kind = "Literal" -> segment.name
      [] segment.kind = "VarnameSegment" -> <<"{">> \o segment.name \o <<"}">>
      [] segment.kind = "VarnameWildcard" ->
            <<"{">> \o segment.name \o <<":", ".", "*", "}">>

\* components.join("/")
RECURSIVE join(_)
join(components) ==
    IF components = <<>> THEN <<>>
    ELSE IF Len(components) = 1 THEN components[1]
    ELSE components[1] \o <<"/">> \o join(Tail(components))

\* HttpRouterIter::path(): "/" and the segments of the stack above the
\* placeholder, joined by "/"
HttpRouterIter_path(it) ==
    <<"/">> \o join([i \in 1..(Len(it.path) - 1) |->
                        format_segment(it.path[i + 1].segment)])

\* the loop of HttpRouterIter::next(): the next handler of the node, else the
\* next child of the top of the stack, else pop
RECURSIVE next_loop(_)
next_loop(it) ==
    IF it.method # <<>>
    THEN [iter |-> [it EXCEPT !.method = Tail(@)],
          item |-> Some([path |-> HttpRouterIter_path(it),
                         method |-> Head(it.method)[1],
                         endpoint |-> Head(it.method)[2]])]
    ELSE IF it.path = <<>> THEN [iter |-> it, item |-> None]
    ELSE LET depth == Len(it.path)
             last == it.path[depth]
         IN IF last.children = <<>>
            THEN \* pop; the assert!() holds, the handlers being exhausted
                 next_loop([it EXCEPT !.path = SubSeq(@, 1, depth - 1)])
            ELSE LET child == Head(last.children)
                 IN next_loop(
                      [it EXCEPT
                         !.path = [@ EXCEPT ![depth].children = Tail(@)]
                                    \o << [segment |-> child[1],
                                           children |-> iter_node(child[2])] >>,
                         !.method = iter_handlers_from_node(child[2], it.version)])

\* HttpRouterIter::next()
HttpRouterIter_next(it) ==
    IF it.path = <<>> THEN [iter |-> it, item |-> None] ELSE next_loop(it)

\* registration paths of the iterated routers: "/", "/a", "/b", "/a/b",
\* "/{x}", "/{p:.*}" and "/a/{p:.*}"
IterPaths ==
    { <<"/">>,
      <<"/", "a">>,
      <<"/", "b">>,
      <<"/", "a", "/", "b">>,
      <<"/", "{", "x", "}">>,
      <<"/", "{", "p", ":", ".", "*", "}">>,
      <<"/", "a", "/", "{", "p", ":", ".", "*", "}">> }

IterEndpoints == [method : {GET, PUT}, path : IterPaths, versions : {All, From(1)}]

IterVersions == {None, Some(0), Some(1)}

InsertIter == InsertFrom(IterEndpoints)

\* router.endpoints(version): the iterator borrows the router
Endpoints ==
    /\ pc = "idle"
    /\ panicked = NoPanic
    /\ iter = NoIter
    /\ \E version \in IterVersions :
         /\ iter' = endpoints(router, version)
         /\ call' = [op |-> "endpoints", version |-> version]
    /\ yielded' = <<>>
    /\ ret' = NoRet
    /\ UNCHANGED <<router, panicked, pc, node, all_segments, variables>>

\* iter.next(), called up to twice more than there are endpoints
IterNext ==
    /\ iter.live
    /\ Len(yielded) < Len(stored_endpoints(router.root)) + 2
    /\ LET step == HttpRouterIter_next(iter)
       IN /\ iter' = step.iter
          /\ yielded' = Append(yielded, step.item)
    /\ UNCHANGED <<router, panicked, call, pc, node, all_segments, variables, ret>>

NextIter == InsertIter \/ Endpoints \/ IterNext

SpecIter == Init /\ [][NextIter]_vars

\* the endpoints the iterator is to yield: the stored ones, in preorder,
\* whose predicate matches the iterator's version
Expected == SelectSeq(Stored, LAMBDA e : matches(e.versions, iter.version))

\* the number of next() calls that returned an item
Items == Cardinality({i \in 1..Len(yielded) : yielded[i] # None})

\* C18: endpoints() yields the endpoints in preorder, depth first (a node's
\* endpoints by method key, then its literal children by key, its variable
\* child, its wildcard child), then returns None and keeps returning None.
C18_PreorderThenNone ==
    iter.live
        => /\ Items <= Len(Expected)
           /\ \A i \in 1..Len(yielded) :
                 IF i <= Items
                 THEN /\ yielded[i] # None
                      /\ yielded[i][1].endpoint = Expected[i]
                      /\ yielded[i][1].method = Expected[i].method
                 ELSE yielded[i] = None
           /\ Len(yielded) > Items => Items = Len(Expected)

\* C18 witness: "/{x}" and "/b" are registered, the iterator yielded "/b"
\* then "/{x}", then None twice.
C18_Witness ==
    /\ iter.live
    /\ call.op = "endpoints"
    /\ Len(yielded) = 4
    /\ yielded[1] # None /\ yielded[1][1].endpoint.path = <<"/", "b">>
    /\ yielded[2] # None /\ yielded[2][1].endpoint.path = <<"/", "{", "x", "}">>
    /\ yielded[3] = None /\ yielded[4] = None

\* the path of a registered route as the claim renders it: literals verbatim,
\* a variable as {name}, a wildcard as {name:.*}
Rendered(route) ==
    LET segments == RawSegments(route)
    IN <<"/">> \o join([i \in 1..Len(segments) |->
            LET segment == PathSegment_from(segments[i])
            IN CASE segment.kind = "Literal" -> segment.name
                 [] segment.kind = "VarnameSegment" ->
                        <<"{">> \o segment.name \o <<"}">>
                 [] segment.kind = "VarnameWildcard" ->
                        <<"{">> \o segment.name \o <<":", ".", "*", "}">>])

\* C19 (as claimed): every endpoint yielded by endpoints() comes with the
\* path of its route, each literal verbatim, each variable as {name} and
\* each wildcard as {name:.*}.
C19_YieldedPathIsRoute ==
    \A i \in 1..Len(yielded) :
        yielded[i] # None
            => yielded[i][1].path = Rendered(yielded[i][1].endpoint.path)

\* the yielded paths of the routes without wildcard are the routes' paths
C19_PathsWithoutWildcard ==
    \A i \in 1..Len(yielded) :
        (yielded[i] # None /\ ~EndsInWildcard(RawSegments(yielded[i][1].endpoint.path)))
            => yielded[i][1].path = Rendered(yielded[i][1].endpoint.path)

\* the iterator has returned None
Exhausted == iter.live /\ yielded # <<>> /\ yielded[Len(yielded)] = None

\* how many times the iterator yielded the endpoint
TimesYielded(e) ==
    Cardinality({i \in 1..Len(yielded) : yielded[i] # None /\ yielded[i][1].endpoint = e})

\* C20: endpoints(Some(v)) yields every stored endpoint whose range contains
\* v exactly once and no other endpoint.
C20_YieldsExactlyTheMatching ==
    /\ (iter.live /\ iter.version # None)
          => \A i \in 1..Len(yielded) :
                yielded[i] # None
                    => /\ \E e \in 1..Len(Stored) : Stored[e] = yielded[i][1].endpoint
                       /\ InRange(yielded[i][1].endpoint.versions, iter.version[1])
                       /\ TimesYielded(yielded[i][1].endpoint) = 1
    /\ (Exhausted /\ iter.version # None)
          => \A e \in 1..Len(Stored) :
                TimesYielded(Stored[e])
                    = IF InRange(Stored[e].versions, iter.version[1]) THEN 1 ELSE 0

\* C20 witness: "/a" is registered for All and for From(1) under two methods,
\* endpoints(Some(0)) yielded one endpoint and then None.
C20_Witness ==
    /\ Exhausted
    /\ iter.version = Some(0)
    /\ {Stored[e].versions : e \in 1..Len(Stored)} = {All, From(1)}
    /\ Items = 1

\* ------------------------------------------------------- the serve phase

\* a lookup and an iteration in progress at once on one router
ParallelEndpoints ==
    [method : {GET},
     path : {<<"/", "a">>, <<"/", "{", "x", "}">>, <<"/", "{", "p", ":", ".", "*", "}">>},
     versions : {All, From(1)}]

InsertParallel == InsertFrom(ParallelEndpoints)

LookupParallel ==
    LookupBeginFrom({GET}, {<<"/", "a">>, <<"/", "a", "/", "b">>}, {None, Some(1)})

NextParallel ==
    InsertParallel \/ LookupParallel \/ LookupStep \/ LookupFinish
        \/ Endpoints \/ IterNext

SpecParallel == Init /\ [][NextParallel]_vars

\* what the first n calls of next() return on an iterator
RECURSIVE drain(_, _)
drain(it, n) ==
    IF n = 0 THEN <<>>
    ELSE LET step == HttpRouterIter_next(it)
         IN <<step.item>> \o drain(step.iter, n - 1)

\* C21: the steps of lookup_route() and of endpoints() and its iterator
\* leave the router as it is, whatever they return; a lookup interleaved
\* with an iteration returns what lookup_route() returns on the router alone,
\* and the iteration yields what a fresh iterator on the router yields.
C21_ReadOnlyLookupAndIteration ==
    /\ [][(LookupParallel \/ LookupStep \/ LookupFinish \/ Endpoints \/ IterNext)
            => router' = router]_vars
    /\ [](Returned
            => ret = lookup_route(router, call.method, call.path, call.version))
    /\ [](iter.live
            => yielded = drain(endpoints(router, iter.version), Len(yielded)))

\* C21 witness: a lookup that began after the iterator had yielded an item
\* failed with 404 while the iterator went on to yield a second item.
C21_Witness ==
    /\ Returned /\ ret.status = 404
    /\ iter.live
    /\ Len(yielded) = 2 /\ yielded[2] # None
    /\ router.has_versioned_routes

\* ------------------------------------------------- registration path syntax

\* registration paths, well-formed and not: "", "a", "/", "//", "/a", "/a/",
\* "/a//", "//a", "/a//a", "/{x}", "/{x}/", "/{x:.*}", "/{}", "/{x", "/x}",
\* "/{x:}", "/{x:a}", "/{:.*}" and "/}{"
SyntaxPaths ==
    { <<>>,
      <<"a">>,
      <<"/">>,
      <<"/", "/">>,
      <<"/", "a">>,
      <<"/", "a", "/">>,
      <<"/", "a", "/", "/">>,
      <<"/", "/", "a">>,
      <<"/", "a", "/", "/", "a">>,
      <<"/", "{", "x", "}">>,
      <<"/", "{", "x", "}", "/">>,
      <<"/", "{", "x", ":", ".", "*", "}">>,
      <<"/", "{", "}">>,
      <<"/", "{", "x">>,
      <<"/", "x", "}">>,
      <<"/", "{", "x", ":", "}">>,
      <<"/", "{", "x", ":", "a", "}">>,
      <<"/", "{", ":", ".", "*", "}">>,
      <<"/", "}", "{">> }

SyntaxEndpoints == [method : {GET, PUT}, path : SyntaxPaths, versions : {All, From(1)}]

InsertSyntax == InsertFrom(SyntaxEndpoints)

NextSyntax == InsertSyntax

SpecSyntax == Init /\ [][NextSyntax]_vars

\* a segment in braces: "{", a non-empty name without ":", then "}" or ":.*}"
WellBraced(segment) ==
    \E k \in 2..Len(segment) :
        /\ segment[1] = "{"
        /\ \A j \in 2..k : segment[j] # ":"
        /\ SubSeq(segment, k + 1, Len(segment)) \in {<<"}">>, <<":", ".", "*", "}">>}

\* a registration path as the claim wants it: a leading "/", no empty segment
\* but a single trailing one, and every segment that starts with "{" or ends
\* with "}" well braced
WellFormed(path) ==
    /\ path # <<>> /\ path[1] = "/"
    /\ \A i \in 1..(Len(path) - 1) : ~(path[i] = "/" /\ path[i + 1] = "/")
    /\ \A i \in 1..Len(path), j \in 1..Len(path) :
          (/\ i <= j /\ IsSegment(path, i, j)
           /\ \A k \in i..j : path[k] # "/"
           /\ path[i] = "{" \/ path[j] = "}")
              => WellBraced(SubSeq(path, i, j))

\* whether two paths differ by one trailing "/"
TrailingSlashApart(p, q) == p = q \o <<"/">> \/ q = p \o <<"/">>

\* C22: an insert that succeeds has a well-formed registration path, and an
\* insert of a well-formed path that differs by a trailing "/" from a stored
\* route of the same method and predicate is rejected as a duplicate route.
C22_RegistrationPathSyntax ==
    call.op = "insert"
        => /\ panicked = NoPanic => WellFormed(call.endpoint.path)
           /\ (\E i \in 1..Len(Stored) :
                  /\ WellFormed(call.endpoint.path)
                  /\ TrailingSlashApart(Stored[i].path, call.endpoint.path)
                  /\ Stored[i].method = to_uppercase(call.endpoint.method)
                  /\ Stored[i].versions = call.endpoint.versions)
                => panicked = "attempted to create duplicate route"

\* C22 witness: GET "/a" is stored and the insert of GET "/a/" was rejected
\* as a duplicate.
C22_Witness ==
    /\ call.op = "insert"
    /\ call.endpoint.path = <<"/", "a", "/">>
    /\ Len(Stored) = 1 /\ Stored[1].path = <<"/", "a">>
    /\ panicked = "attempted to create duplicate route"

\* C22 witness of a rejected path: the insert of "/a//a" panicked.
C22_WitnessEmptySegment ==
    /\ call.op = "insert"
    /\ call.endpoint.path = <<"/", "a", "/", "/", "a">>
    /\ panicked = "path segments may not be empty"

\* ------------------------------------------------- the bucket of one route

\* GET "/a" registered for All and for the ranges, up to MaxBucket times
BucketEndpoints ==
    [method : {GET}, path : {<<"/", "a">>}, versions : {All} \cup VersionedPredicates]

InsertBucket == InsertUpTo(BucketEndpoints, MaxBucket)

NextBucket == InsertBucket

SpecBucket == Init /\ [][NextBucket]_vars

\* whether some version is in both ranges; All is taken to overlap with
\* every predicate
Overlap(a, b) ==
    \/ a.kind = "All"
    \/ b.kind = "All"
    \/ \E v \in 0..(MaxVersion + 1) : InRange(a, v) /\ InRange(b, v)

\* the endpoints stored before a rejected insert in the bucket it went to
Existing ==
    {i \in 1..Len(Stored) :
        /\ RawSegments(Stored[i].path) = RawSegments(call.endpoint.path)
        /\ Stored[i].method = to_uppercase(call.endpoint.method)}

\* C23: an insert rejected for the predicates in the bucket reports a
\* duplicate route exactly when some endpoint of the bucket, at any position,
\* has the new predicate, and overlapping version ranges exactly when some
\* predicate of the bucket overlaps the new one and none equals it.
C23_DuplicateOrOverlapping ==
    (call.op = "insert"
        /\ panicked \in {"attempted to create duplicate route", "overlapping version ranges"})
        => LET identical == \E i \in Existing :
                                Stored[i].versions = call.endpoint.versions
               overlapping == \E i \in Existing :
                                Overlap(Stored[i].versions, call.endpoint.versions)
           IN /\ panicked = "attempted to create duplicate route" <=> identical
              /\ panicked = "overlapping version ranges"
                    <=> (overlapping /\ ~identical)

\* C23 witness: Until(1) then From(2) are in the bucket and the insert of
\* From(2), the predicate of the second, was rejected as a duplicate route.
C23_Witness ==
    /\ call.op = "insert"
    /\ call.endpoint.versions = From(2)
    /\ Len(Stored) = 2
    /\ Stored[1].versions = Until(1) /\ Stored[2].versions = From(2)
    /\ panicked = "attempted to create duplicate route"

\* C23 witness of an overlap: with the same bucket, the insert of From(0)
\* was rejected for overlapping version ranges.
C23_WitnessOverlap ==
    /\ call.op = "insert"
    /\ call.endpoint.versions = From(0)
    /\ Len(Stored) = 2
    /\ Stored[1].versions = Until(1) /\ Stored[2].versions = From(2)
    /\ panicked = "overlapping version ranges"

\* ------------------------------------------------- percent-encoded requests

EncodedEndpoints ==
    [method : {GET},
     path : { <<"/", "a">>,
              <<"/", "{", "x", "}">>,
              <<"/", "{", "x", "}", "/", "{", "y", "}">>,
              <<"/", "{", "p", ":", ".", "*", "}">> },
     versions : {All}]

\* request paths with percent-encoded characters: "/a", "/%61", "/a/b",
\* "/a%2fb", "/a%2Fb", "/%2fa", "/a%2f/b", "/%2e", "/%2e%2e", "/%2E.",
\* "/a/%2e%2e", "/.", "/..", "/%ff", "/%" and "/%2"
EncodedRequests ==
    { <<"/", "a">>,
      <<"/", "%", "6", "1">>,
      <<"/", "a", "/", "b">>,
      <<"/", "a", "%", "2", "f", "b">>,
      <<"/", "a", "%", "2", "F", "b">>,
      <<"/", "%", "2", "f", "a">>,
      <<"/", "a", "%", "2", "f", "/", "b">>,
      <<"/", "%", "2", "e">>,
      <<"/", "%", "2", "e", "%", "2", "e">>,
      <<"/", "%", "2", "E", ".">>,
      <<"/", "a", "/", "%", "2", "e", "%", "2", "e">>,
      <<"/", ".">>,
      <<"/", ".", ".">>,
      <<"/", "%", "f", "f">>,
      <<"/", "%">>,
      <<"/", "%", "2">> }

InsertEncoded == InsertFrom(EncodedEndpoints)

LookupEncoded == LookupBeginFrom({GET}, EncodedRequests, {None})

NextEncoded == InsertEncoded \/ LookupEncoded \/ LookupStep \/ LookupFinish

SpecEncoded == Init /\ [][NextEncoded]_vars

\* the number of non-empty pieces between the "/" characters of a path
RawPieces(path) ==
    Cardinality({i \in 1..Len(path) :
                    path[i] # "/" /\ (i = 1 \/ path[i - 1] = "/")})

\* the number of request segments a successful lookup has accounted for: one
\* per segment of the route before the wildcard, and the wildcard's components
Walked ==
    IF EndsInWildcard(Matched)
    THEN Len(Matched) - 1
            + Len(ret.variables[PathSegment_from(Matched[Len(Matched)]).name].value)
    ELSE Len(Matched)

\* C24: the request path is split before it is percent-decoded. The walk
\* starts with as many segments as the raw path has non-empty pieces, a
\* successful lookup has walked that many, and a segment that decodes to
\* text with a "/" stays one segment.
C24_EncodedSlashDoesNotSplit ==
    /\ (call.op = "lookup" /\ pc = "walk")
          => /\ Len(Requested) = RawPieces(call.path)
             /\ Len(all_segments) <= RawPieces(call.path)
    /\ (Returned /\ ret.status = 200) => Walked = RawPieces(call.path)

\* C24 witness: "/{x}" matched "/a%2fb" with x bound to "a/b".
C24_Witness ==
    /\ Returned /\ ret.status = 200
    /\ call.path = <<"/", "a", "%", "2", "f", "b">>
    /\ <<"x">> \in DOMAIN ret.variables
    /\ ret.variables[<<"x">>].value = <<"a", "/", "b">>

\* whether a predicate admits the version of a request
Admits(versions, version) ==
    IF version = None THEN versions.kind = "All" ELSE InRange(versions, version[1])

\* whether a registered path matches request segments position by position:
\* a literal equals the segment, a variable covers one segment, a wildcard
\* at the end covers the segments that remain, none included
RouteMatches(route, segments) ==
    LET fixed == IF EndsInWildcard(route) THEN Len(route) - 1 ELSE Len(route)
    IN /\ IF EndsInWildcard(route)
          THEN Len(segments) >= fixed ELSE Len(segments) = fixed
       /\ \A i \in 1..fixed :
             LET segment == PathSegment_from(route[i])
             IN /\ segment.kind \in {"Literal", "VarnameSegment"}
                /\ segment.kind = "Literal" => segments[i] = segment.name

\* C25: a handler returned by lookup_route() is a stored endpoint that was
\* inserted with the request method, up to case, whose predicate admits the
\* requested version and whose registration path matches the request
\* segments position by position.
C25_ReturnedEndpointMatches ==
    (Returned /\ ret.status = 200)
        => LET E == ret.handler[1]
           IN /\ \E i \in 1..Len(Stored) : Stored[i] = E
              /\ to_uppercase(E.method) = to_uppercase(call.method)
              /\ Admits(E.versions, call.version)
              /\ RouteMatches(Matched, Requested)

\* C25 witness: PUT "/{x}" From(1) was returned to the request put "/b" at
\* version 2.
C25_Witness ==
    /\ Returned /\ ret.status = 200
    /\ call.method = <<"p", "u", "t">>
    /\ call.path = <<"/", "b">>
    /\ call.version = Some(2)
    /\ ret.handler[1] = [method |-> PUT, path |-> <<"/", "{", "x", "}">>,
                          versions |-> From(1)]

\* whether a decoded segment is a dot-segment
IsDotSegment(segment) == segment \in {<<".">>, <<".", ".">>}

\* the values bound by a lookup, a Components value counting for each of its
\* components
BoundSegments ==
    UNION {IF ret.variables[k].kind = "String"
           THEN {ret.variables[k].value}
           ELSE {ret.variables[k].value[i] : i \in 1..Len(ret.variables[k].value)}
             : k \in DOMAIN ret.variables}

\* C26 (as claimed): no walk of the trie has a decoded segment equal to "."
\* or ".." before it, and no successful lookup binds such a segment to a
\* variable: the requests with a segment that decodes to a dot-segment are
\* rejected with 400.
C26_NoDecodedDotSegment ==
    /\ (call.op = "lookup" /\ pc = "walk")
          => \A i \in 1..Len(all_segments) : ~IsDotSegment(all_segments[i])
    /\ (Returned /\ ret.status = 200)
          => \A segment \in BoundSegments : ~IsDotSegment(segment)

\* the requests with a raw segment "." or ".." never reach the walk
C26_RawDotSegmentRejected ==
    (call.op = "lookup" /\ HasDotSegment(call.path))
        => pc = "idle" /\ ret.status = 400

\* ------------------------------------------------------ growing the router

\* routes that share nodes and routes that add edges beside them: "/",
\* "/a", "/{x}", "/{x}/b" and "/{p:.*}", for All and for two ranges
GrowEndpoints ==
    [method : {GET, PUT},
     path : { <<"/">>,
              <<"/", "a">>,
              <<"/", "{", "x", "}">>,
              <<"/", "{", "x", "}", "/", "b">>,
              <<"/", "{", "p", ":", ".", "*", "}">> },
     versions : {All, Until(1), From(1)}]

\* the requests the routers are compared on
GrowRequests ==
    [method : {GET},
     path : {<<"/">>, <<"/", "a">>, <<"/", "b">>, <<"/", "a", "/", "b">>},
     version : {None, Some(0), Some(1)}]

InsertGrow == InsertFrom(GrowEndpoints)

NextGrow == InsertGrow

SpecGrow == Init /\ [][NextGrow]_vars

\* what lookup_route() returns for a request on a router
Outcome(r, request) == lookup_route(r, request.method, request.path, request.version)

\* the edges of the trie below a node, without the endpoints
RECURSIVE Shape(_)
Shape(n) ==
    [literal_edges |->
        IF n.literal_edges = None THEN None
        ELSE Some([k \in DOMAIN n.literal_edges[1] |-> Shape(n.literal_edges[1][k])]),
     variable_edge |->
        IF n.variable_edge = None THEN None
        ELSE Some(<<n.variable_edge[1][1], Shape(n.variable_edge[1][2])>>),
     rest_edge |->
        IF n.rest_edge = None THEN None
        ELSE Some(<<n.rest_edge[1][1], Shape(n.rest_edge[1][2])>>)]

\* an insert() call returned without panic
Inserted == call'.op = "insert" /\ panicked' = NoPanic

\* C27 (as claimed): after an insert that succeeds, every request that
\* lookup_route() answered with a handler before is still answered with a
\* handler.
C27_InsertKeepsLookupsSuccessful ==
    [][Inserted
        => \A request \in GrowRequests :
              Outcome(router, request).status = 200
                  => Outcome(router', request).status = 200]_vars

\* C27 (amended): after an insert that succeeds and adds no edge to the
\* trie, every request that lookup_route() answered with a handler before is
\* answered with the same handler and variables.
C27_InsertWithoutNewEdgeKeepsLookups ==
    [][(Inserted /\ Shape(router'.root) = Shape(router.root))
        => \A request \in GrowRequests :
              Outcome(router, request).status = 200
                  => Outcome(router', request) = Outcome(router, request)]_vars

\* C27 witness: GET "/a" is registered for Until(1) and for From(1), the
\* second insert having found the node of the first; the request at version
\* 0 and the request at version 1 are both answered.
C27_Witness ==
    /\ call.op = "insert" /\ panicked = NoPanic
    /\ Len(Stored) = 2
    /\ \A i \in 1..2 : Stored[i].path = <<"/", "a">> /\ Stored[i].method = GET
    /\ {Stored[i].versions : i \in 1..2} = {Until(1), From(1)}
    /\ Outcome(router, [method |-> GET, path |-> <<"/", "a">>, version |-> Some(0)]).status = 200
    /\ Outcome(router, [method |-> GET, path |-> <<"/", "a">>, version |-> Some(1)]).status = 200

\* the orders in which the stored endpoints can be inserted
Orders ==
    {order \in [1..Len(Stored) -> 1..Len(Stored)] :
        \A i, j \in 1..Len(Stored) : i # j => order[i] # order[j]}

\* the router and the panic after the inserts of a sequence of endpoints into
\* a router; a panic ends the sequence
RECURSIVE insert_all(_, _)
insert_all(r, sequence) ==
    IF sequence = <<>> THEN [router |-> r, panic |-> NoPanic]
    ELSE LET done == insert(r, Head(sequence))
         IN IF done.panic # NoPanic THEN done
            ELSE insert_all(done.router, Tail(sequence))

C28_WitnessEdges ==
    /\ panicked = NoPanic
    /\ call.op = "insert" /\ call.endpoint.path = <<"/", "a">>
    /\ call.endpoint.method = GET /\ call.endpoint.versions = All
    /\ router.root.variable_edge # None
    /\ Outcome(router, [method |-> GET, path |-> <<"/", "a">>, version |-> None]).status = 200

\* ------------------------------------------------- variable names on a path

\* routes with one and two variables, with and without a repeated name:
\* "/{x}", "/{x}/{y}", "/{x}/{x}", "/{x}/{y:.*}", "/{x}/{x:.*}", "/a/{x}"
NameEndpoints ==
    [method : {GET, PUT},
     path : { <<"/", "{", "x", "}">>,
              <<"/", "{", "x", "}", "/", "{", "y", "}">>,
              <<"/", "{", "x", "}", "/", "{", "x", "}">>,
              <<"/", "{", "x", "}", "/", "{", "y", ":", ".", "*", "}">>,
              <<"/", "{", "x", "}", "/", "{", "x", ":", ".", "*", "}">>,
              <<"/", "a", "/", "{", "x", "}">> },
     versions : {All, From(1)}]

NameRequests ==
    [method : {GET},
     path : {<<"/", "a">>, <<"/", "b">>, <<"/", "a", "/", "b">>, <<"/", "b", "/", "a">>},
     version : {None, Some(1)}]

InsertNames == InsertFrom(NameEndpoints)

NextNames == InsertNames

SpecNames == Init /\ [][NextNames]_vars

\* whether the names on the variable and wildcard edges of every path from
\* a node down are distinct from each other and from the names in `seen`
RECURSIVE DistinctNames(_, _)
DistinctNames(n, seen) ==
    /\ n.literal_edges # None
          => \A k \in DOMAIN n.literal_edges[1] :
                DistinctNames(n.literal_edges[1][k], seen)
    /\ n.variable_edge # None
          => /\ n.variable_edge[1][1] \notin seen
             /\ DistinctNames(n.variable_edge[1][2], seen \cup {n.variable_edge[1][1]})
    /\ n.rest_edge # None
          => /\ n.rest_edge[1][1] \notin seen
             /\ DistinctNames(n.rest_edge[1][2], seen \cup {n.rest_edge[1][1]})

\* the number of variable and wildcard segments of a registered path, each
\* of which is an edge the lookup that matched it followed
VariableEdges(route) ==
    Cardinality({i \in 1..Len(RawSegments(route)) :
                    PathSegment_from(RawSegments(route)[i]).kind
                        \in {"VarnameSegment", "VarnameWildcard"}})

\* C29: the names on the variable and wildcard edges of any path from the
\* root are pairwise distinct, and a successful lookup returns as many
\* variables as it followed variable and wildcard edges.
C29_DistinctNamesOnAPath ==
    /\ DistinctNames(router.root, {})
    /\ panicked = NoPanic
          => \A request \in NameRequests :
                LET found == Outcome(router, request)
                IN found.status = 200
                      => Cardinality(DOMAIN found.variables)
                            = VariableEdges(found.handler[1].path)

\* C29 witness: "/{x}/{y:.*}" is registered and the request "/b/a" is
\* answered with the two variables x and y.
C29_Witness ==
    /\ panicked = NoPanic
    /\ router.root.variable_edge # None
    /\ router.root.variable_edge[1][2].rest_edge # None
    /\ LET found == Outcome(router, [method |-> GET, path |-> <<"/", "b", "/", "a">>,
                                     version |-> None])
       IN found.status = 200 /\ DOMAIN found.variables = {<<"x">>, <<"y">>}

\* C29 witness of a rejected name: the insert of "/{x}/{x:.*}" panicked and
\* left no wildcard edge named x below the variable edge x.
C29_WitnessRejected ==
    /\ call.op = "insert"
    /\ call.endpoint.path = <<"/", "{", "x", "}", "/", "{", "x", ":", ".", "*", "}">>
    /\ panicked = "variable name is used more than once"

\* ------------------------------------------- the unfiltered enumeration

C30_UnfilteredYieldsAllPredicates ==
    /\ (iter.live /\ iter.version = None)
          => \A i \in 1..Len(yielded) :
                yielded[i] # None
                    => /\ \E e \in 1..Len(Stored) : Stored[e] = yielded[i][1].endpoint
                       /\ yielded[i][1].endpoint.versions = All
                       /\ TimesYielded(yielded[i][1].endpoint) = 1
    /\ (Exhausted /\ iter.version = None)
          => \A e \in 1..Len(Stored) :
                TimesYielded(Stored[e]) = IF Stored[e].versions = All THEN 1 ELSE 0

\* an endpoint registered for From(1) alone, endpoints(None) exhausted without
\* an item
C30_VersionedEndpointOmitted ==
    /\ Exhausted
    /\ iter.version = None
    /\ Len(Stored) = 1
    /\ Stored[1].versions = From(1)
    /\ Items = 0

====
